---- MODULE Spec2Model ----
(***************************************************************************)
(* Advanced-API DHCP reconciliation of the vSphere provider extension:     *)
(* the six tasks of pkg/internal/infrastructure/tasks_advanced_dhcp.go     *)
(* (edge-cluster lookup, DHCP profile, DHCP server, logical-switch lookup, *)
(* DHCP port, DHCP IP pool), the ensurer that runs them forward and in     *)
(* reverse, and the NSX-T manager API they talk to.                        *)
(*                                                                         *)
(* A task's Ensure is one action.  The self-heal `return t.Ensure(a, spec, *)
(* state)` re-enters the same handler: the re-entered invocation is the    *)
(* next step of the same call (pc.re), so that the State between clearing  *)
(* a Reference and storing a new one is a state of the model.              *)
(***************************************************************************)
EXTENDS Integers, Sequences, FiniteSets, TLC

VARIABLES
    spec,          \* NSXTInfraSpec of the caller, fixed over a behaviour
    state,         \* NSXTInfraState: the six ids and the segment path
    remote,        \* NSX-T: kind -> (id -> stored object)
    nextId,        \* NSX-T: kind -> next id the API hands out
    edgeClusters,  \* NSX-T: what ListEdgeClusters returns
    switches,      \* NSX-T: what ListLogicalSwitches returns
    pc,            \* the ensurer's position: mode, task index, re-entry
    calls,         \* remote calls issued by the task that ran last
    reported,      \* tasks whose EnsureDeleted returned true in this pass
    last,          \* outcome of the last finished pass / call
    drift          \* number of failed remote calls and external changes so far

vars == <<spec, state, remote, nextId, edgeClusters, switches, pc, calls,
          reported, last, drift>>

-----------------------------------------------------------------------------
(* Bounds *)

\* ids the API hands out per resource kind
MaxId == 2
\* failed remote calls and external changes (out-of-band deletes, edits,
\* relisting) per behaviour
MaxDisturbances == 2
\* tags in a tag list compared by the diff
MaxTags == 2
\* host bits of the worker subnets addresses are derived from
MaxHostBits == 8

-----------------------------------------------------------------------------
(* Values *)

\* a nil *string in NSXTInfraState; also the zero value "" of an id field
Nil == 0

StatusOK == 200
StatusCreated == 201
StatusNotFound == 404

LeaseTime == 7200
ErrorThreshold == 98
WarningThreshold == 70

\* the fixed task list, in forward order
Tasks == <<"edge", "profile", "server", "switch", "port", "pool">>

Owning == {"profile", "server", "port", "pool"}

TaskIndex(t) == CHOOSE i \in 1..Len(Tasks) : Tasks[i] = t

\* the State field a task's Ensure and EnsureDeleted read and write
RefField(t) ==
    CASE t = "edge"    -> "EdgeClusterID"
      [] t = "profile" -> "ProfileID"
      [] t = "server"  -> "ServerID"
      [] t = "switch"  -> "LogicalSwitchID"
      [] t = "port"    -> "PortID"
      [] t = "pool"    -> "IPPoolID"

RefFields == {RefField(Tasks[i]) : i \in 1..Len(Tasks)}

Tag(s, v) == [scope |-> s, tag |-> v]

CommonTags == <<Tag("owner", "gardener"), Tag("cluster", "shoot")>>

SegmentPath == "/infra/segments/shoot"

\* worker subnets: base address and number of host bits (a /24 and a /30)
WorkerNets == {[base |-> 0, hostBits |-> 8], [base |-> 0, hostBits |-> 2]}

SpecSet ==
    [name : {"shoot"}, workers : WorkerNets, dns : {<<"dns1", "dns2">>},
     edgeName : {"edge"}, tags : {CommonTags}]

Reverse(s) == [i \in 1..Len(s) |-> s[Len(s) + 1 - i]]

RECURSIVE Pow2(_)
Pow2(n) == IF n = 0 THEN 1 ELSE 2 * Pow2(n - 1)

-----------------------------------------------------------------------------
(* Helpers of the package *)

\* helper of the package: the address of host number n of the subnet; a
\* negative n counts back from the broadcast address (-1 is the last usable
\* host); an offset the subnet cannot hold is an error
cidrHost(net, n) ==
    LET size == Pow2(net.hostBits)
        num  == IF n < 0 THEN size - 1 + n ELSE n
    IN  IF num < 0 \/ num > size - 1
        THEN [ok |-> FALSE, ip |-> Nil]
        ELSE [ok |-> TRUE, ip |-> net.base + num]

\* helper of the package: cidrHost with the subnet's prefix appended
cidrHostAndPrefix(net, n) ==
    LET h == cidrHost(net, n)
    IN  [ok |-> h.ok, ip |-> <<h.ip, net.hostBits>>]

\* helper of the package: positional comparison of two string lists
equalOrderedStrings(a, b) ==
    /\ Len(a) = Len(b)
    /\ \A i \in 1..Len(a) : a[i] = b[i]

equalCommonTags(a, b) ==
    /\ Len(a) = Len(b)
    /\ \A i \in 1..Len(a) :
          \E j \in 1..Len(b) : a[i].scope = b[j].scope /\ a[i].tag = b[j].tag

-----------------------------------------------------------------------------
(* The objects the tasks build from Spec and State *)

DesiredProfile(sp, st) ==
    [name |-> sp.name, edge |-> st.EdgeClusterID, tags |-> sp.tags]

DesiredServer(sp, st) ==
    [name |-> sp.name, profile |-> st.ProfileID, hasIpv4 |-> TRUE,
     serverIp |-> cidrHostAndPrefix(sp.workers, 2).ip,
     gatewayIp |-> cidrHost(sp.workers, 1).ip,
     dns |-> sp.dns, tags |-> sp.tags]

\* mutant: the port is attached to the profile instead of the server
DesiredPortOfProfile(sp, st) ==
    [name |-> sp.name, switch |-> st.LogicalSwitchID, admin |-> "UP",
     hasAttachment |-> TRUE, attachmentType |-> "DHCP_SERVICE",
     attachmentId |-> st.ProfileID, tags |-> sp.tags]

DesiredPort(sp, st) ==
    [name |-> sp.name, switch |-> st.LogicalSwitchID, admin |-> "UP",
     hasAttachment |-> TRUE, attachmentType |-> "DHCP_SERVICE",
     attachmentId |-> st.ServerID, tags |-> sp.tags]

\* `server` is the server id the pool is addressed under in the API path
DesiredPool(sp, st) ==
    [server |-> st.ServerID, name |-> sp.name,
     gatewayIp |-> cidrHost(sp.workers, 1).ip,
     lease |-> LeaseTime, errorThreshold |-> ErrorThreshold,
     warningThreshold |-> WarningThreshold,
     ranges |-> <<[start |-> cidrHost(sp.workers, 10).ip,
                   end |-> cidrHost(sp.workers, -1).ip]>>,
     tags |-> sp.tags]

Desired(t, sp, st) ==
    CASE t = "profile" -> DesiredProfile(sp, st)
      [] t = "server"  -> DesiredServer(sp, st)
      [] t = "port"    -> DesiredPort(sp, st)
      [] t = "pool"    -> DesiredPool(sp, st)

\* what a read leaves in the result when the API decoded no body
ZeroObject(t) ==
    CASE t = "profile" -> [name |-> "", edge |-> Nil, tags |-> <<>>]
      [] t = "server"  -> [name |-> "", profile |-> Nil, hasIpv4 |-> FALSE,
                           serverIp |-> <<Nil, Nil>>, gatewayIp |-> Nil,
                           dns |-> <<>>, tags |-> <<>>]
      [] t = "port"    -> [name |-> "", switch |-> Nil, admin |-> "",
                           hasAttachment |-> FALSE, attachmentType |-> "",
                           attachmentId |-> Nil, tags |-> <<>>]
      [] t = "pool"    -> [server |-> Nil, name |-> "", gatewayIp |-> Nil,
                           lease |-> 0, errorThreshold |-> 0,
                           warningThreshold |-> 0, ranges |-> <<>>,
                           tags |-> <<>>]

\* mutant: the errors of the address computation are dropped
AddressErrorNever(t, sp) == FALSE

\* the computation of addresses that precedes every remote call of a task
AddressError(t, sp) ==
    CASE t = "server" -> \/ ~cidrHostAndPrefix(sp.workers, 2).ok
                         \/ ~cidrHost(sp.workers, 1).ok
      [] t = "pool"   -> \/ ~cidrHost(sp.workers, 1).ok
                         \/ ~cidrHost(sp.workers, 10).ok
                         \/ ~cidrHost(sp.workers, -1).ok
      [] OTHER        -> FALSE

\* mutant: the pool is not addressed under the server of State
PrerequisitesButPool(t) ==
    CASE t = "profile" -> {"EdgeClusterID"}
      [] t = "server"  -> {"ProfileID"}
      [] t = "port"    -> {"ServerID", "LogicalSwitchID"}
      [] OTHER         -> {}

\* the State fields a task's Ensure dereferences without a nil check
Prerequisites(t) ==
    CASE t = "profile" -> {"EdgeClusterID"}
      [] t = "server"  -> {"ProfileID"}
      [] t = "port"    -> {"ServerID", "LogicalSwitchID"}
      [] t = "pool"    -> {"ServerID"}
      [] OTHER         -> {}

\* a nil pointer is dereferenced: the call ends in a runtime panic
NilDereference(t, st) == \E f \in Prerequisites(t) : st[f] = Nil

profileNeedsUpdate(old, new) ==
    \/ old.name # new.name
    \/ old.edge # new.edge
    \/ ~equalCommonTags(old.tags, new.tags)

\* mutant: the DNS servers are left out of the diff
serverNeedsUpdateIgnoresDns(old, new) ==
    \/ old.name # new.name
    \/ old.profile # new.profile
    \/ ~old.hasIpv4
    \/ old.serverIp # new.serverIp
    \/ old.gatewayIp # new.gatewayIp
    \/ ~equalCommonTags(old.tags, new.tags)

serverNeedsUpdate(old, new) ==
    \/ old.name # new.name
    \/ old.profile # new.profile
    \/ ~old.hasIpv4
    \/ old.serverIp # new.serverIp
    \/ old.gatewayIp # new.gatewayIp
    \/ ~equalOrderedStrings(old.dns, new.dns)
    \/ ~equalCommonTags(old.tags, new.tags)

\* mutant: the attachment id is left out of the diff
portNeedsUpdateIgnoresAttachment(old, new) ==
    \/ old.name # new.name
    \/ old.switch # new.switch
    \/ old.admin # new.admin
    \/ ~old.hasAttachment
    \/ old.attachmentType # new.attachmentType
    \/ ~equalCommonTags(old.tags, new.tags)

portNeedsUpdate(old, new) ==
    \/ old.name # new.name
    \/ old.switch # new.switch
    \/ old.admin # new.admin
    \/ ~old.hasAttachment
    \/ old.attachmentType # new.attachmentType
    \/ old.attachmentId # new.attachmentId
    \/ ~equalCommonTags(old.tags, new.tags)

poolNeedsUpdate(old, new) ==
    \/ old.name # new.name
    \/ old.gatewayIp # new.gatewayIp
    \/ old.lease # new.lease
    \/ old.errorThreshold = new.errorThreshold
    \/ old.warningThreshold = new.warningThreshold
    \/ Len(old.ranges) # 1
    \/ old.ranges[1].start # new.ranges[1].start
    \/ old.ranges[1].end # new.ranges[1].end
    \/ ~equalCommonTags(old.tags, new.tags)

NeedsUpdate(t, old, new) ==
    CASE t = "profile" -> profileNeedsUpdate(old, new)
      [] t = "server"  -> serverNeedsUpdate(old, new)
      [] t = "port"    -> portNeedsUpdate(old, new)
      [] t = "pool"    -> poolNeedsUpdate(old, new)

-----------------------------------------------------------------------------
(* The NSX-T manager API *)

\* how a remote call goes wrong: not at all, a transport error without a
\* response, or a non-success status with a nil error.  A call that does not
\* go wrong answers 404 when its target does not exist.
Faults == {"none", "err", "badstatus"}

\* what the client returns: has = FALSE is a nil response
Response(fault, found, okStatus) ==
    IF fault = "err" THEN [has |-> FALSE, status |-> 0, err |-> TRUE]
    ELSE IF fault = "badstatus"
    THEN [has |-> TRUE, status |-> 500, err |-> FALSE]
    ELSE IF ~found
    THEN [has |-> TRUE, status |-> StatusNotFound, err |-> TRUE]
    ELSE [has |-> TRUE, status |-> okStatus, err |-> FALSE]

\* the object exists; a pool exists under the server it was created under
Live(rem, t, id, srv) ==
    /\ id \in DOMAIN rem[t]
    /\ t = "pool" => rem[t][id].server = srv

\* a pool is created under an existing server
ParentLive(rem, t, obj) == t = "pool" => obj.server \in DOMAIN rem["server"]

Stored(rem, t, id, obj) == [rem EXCEPT ![t] = (id :> obj) @@ @]

Without(f, ids) == [i \in DOMAIN f \ ids |-> f[i]]

\* deleting a server deletes the pools under it
Removed(rem, t, id) ==
    IF t = "server"
    THEN [rem EXCEPT !["server"] = Without(@, {id}),
                     !["pool"] = Without(@, {p \in DOMAIN @ : @[p].server = id})]
    ELSE [rem EXCEPT ![t] = Without(@, {id})]

\* the parent ids a call carries: in the object, or in the path of a pool call
Carried(t, obj) ==
    CASE t = "profile" -> <<obj.edge>>
      [] t = "server"  -> <<obj.profile>>
      [] t = "port"    -> <<obj.attachmentId, obj.switch>>
      [] t = "pool"    -> <<obj.server>>

Addressed(t, st) == IF t = "pool" THEN <<st.ServerID>> ELSE <<>>

Call(t, op, id, carried, resp, newid) ==
    [task |-> t, op |-> op, id |-> id, carried |-> carried,
     status |-> resp.status, newid |-> newid]

Writes == {"create", "update", "delete"}

\* the calls of a sequence that went wrong
Failed(cs) ==
    Cardinality({i \in 1..Len(cs) :
                    cs[i].status \notin {StatusOK, StatusCreated, StatusNotFound}})

-----------------------------------------------------------------------------
(* The tasks *)

Outcome(st, rem, nid, cs, ret) ==
    [st |-> st, rem |-> rem, nid |-> nid, calls |-> cs, ret |-> ret,
     exhausted |-> FALSE, deleted |-> FALSE]

\* mutant: the nil check of the Reference is lost
HasReferenceNever(st, f) == FALSE

\* `if state.AdvancedDHCP.<X>ID != nil`
HasReference(st, f) == st[f] # Nil

\* the State field a task's reference accessor reads
ReferenceField(t) ==
    CASE t = "edge"    -> "EdgeClusterID"
      [] t = "profile" -> "PortID"
      [] t = "server"  -> "ServerID"
      [] t = "switch"  -> "LogicalSwitchID"
      [] t = "port"    -> "PortID"
      [] t = "pool"    -> "IPPoolID"

\* helper of the package: no Reference for a nil id, else a Reference holding
\* the id
toReference(id) == IF id = Nil THEN <<>> ELSE <<[ID |-> id]>>

\* `func (t *<task>) reference(state *NSXTInfraState) *Reference`
reference(t, st) == toReference(st[ReferenceField(t)])

\* mutant: a 404 answer to a read is an error like any other, no self-heal
ReadOutcomeNoHeal(resp) ==
    IF resp.err THEN "err" ELSE "diff"

\* after a read: self-heal on 404, else fail on an error, else diff
ReadOutcome(resp) ==
    IF resp.has /\ resp.status = StatusNotFound THEN "heal"
    ELSE IF resp.err THEN "err"
    ELSE "diff"

\* after an update
UpdateOutcome(resp) ==
    IF resp.err THEN "err"
    ELSE IF resp.status # StatusOK THEN "err"
    ELSE "ok"

\* mutant: a successful create does not store the new id
CreateOutcomeForgets(resp) ==
    IF resp.err THEN [store |-> FALSE, ret |-> "err"]
    ELSE IF resp.status # StatusCreated THEN [store |-> FALSE, ret |-> "err"]
    ELSE [store |-> FALSE, ret |-> "ok"]

\* mutant: the status of a create is not looked at
CreateOutcomeIgnoresStatus(resp) ==
    IF resp.err THEN [store |-> FALSE, ret |-> "err"]
    ELSE [store |-> TRUE, ret |-> "ok"]

\* after a create: is the new id stored, and what Ensure returns
CreateOutcome(resp) ==
    IF resp.err THEN [store |-> FALSE, ret |-> "err"]
    ELSE IF resp.status # StatusCreated THEN [store |-> FALSE, ret |-> "err"]
    ELSE [store |-> TRUE, ret |-> "ok"]

\* mutant: a failed delete is swallowed
DeleteOutcomeIgnoresError(resp) ==
    IF resp.has /\ resp.status = StatusNotFound
    THEN [clear |-> TRUE, deleted |-> FALSE, ret |-> "ok"]
    ELSE IF resp.err THEN [clear |-> FALSE, deleted |-> FALSE, ret |-> "ok"]
    ELSE [clear |-> TRUE, deleted |-> TRUE, ret |-> "ok"]

\* mutant: a successful delete leaves the Reference in State
DeleteOutcomeKeepsReference(resp) ==
    IF resp.has /\ resp.status = StatusNotFound
    THEN [clear |-> TRUE, deleted |-> FALSE, ret |-> "ok"]
    ELSE IF resp.err THEN [clear |-> FALSE, deleted |-> FALSE, ret |-> "err"]
    ELSE [clear |-> FALSE, deleted |-> TRUE, ret |-> "ok"]

\* mutant: a 404 answer to a delete counts as a deletion
DeleteOutcomeCountsNotFound(resp) ==
    IF resp.has /\ resp.status = StatusNotFound
    THEN [clear |-> TRUE, deleted |-> TRUE, ret |-> "ok"]
    ELSE IF resp.err THEN [clear |-> FALSE, deleted |-> FALSE, ret |-> "err"]
    ELSE [clear |-> TRUE, deleted |-> TRUE, ret |-> "ok"]

\* mutant: the 404 check of a delete is lost, the error is returned
DeleteOutcomeNotFoundIsError(resp) ==
    IF resp.err THEN [clear |-> FALSE, deleted |-> FALSE, ret |-> "err"]
    ELSE [clear |-> TRUE, deleted |-> TRUE, ret |-> "ok"]

\* after a delete: is the Reference cleared, what EnsureDeleted returns
DeleteOutcome(resp) ==
    IF resp.has /\ resp.status = StatusNotFound
    THEN [clear |-> TRUE, deleted |-> FALSE, ret |-> "ok"]
    ELSE IF resp.err THEN [clear |-> FALSE, deleted |-> FALSE, ret |-> "err"]
    ELSE [clear |-> TRUE, deleted |-> TRUE, ret |-> "ok"]

\* mutant: the self-heal re-enters Ensure with the Reference still set
HealedKeepsReference(st, f) == st

\* `state.AdvancedDHCP.<X>ID = nil` before `return t.Ensure(a, spec, state)`
Healed(st, f) == [st EXCEPT ![f] = Nil]

\* Ensure of the four owning tasks.  f1 is what goes wrong with the first
\* remote call (the read, or the create), f2 with the second (the update).
\* ret "reenter" is `return t.Ensure(a, spec, state)`.
OwningEnsure(t, sp, st, rem, nid, f1, f2) ==
    LET f   == RefField(t)
        obj == Desired(t, sp, st)
    IN
    IF AddressError(t, sp) THEN Outcome(st, rem, nid, <<>>, "err")
    ELSE IF NilDereference(t, st) THEN Outcome(st, rem, nid, <<>>, "panic")
    ELSE IF HasReference(st, f) THEN
        LET resp == Response(f1, Live(rem, t, st[f], st.ServerID), StatusOK)
            old  == IF resp.has /\ resp.status = StatusOK
                    THEN rem[t][st[f]] ELSE ZeroObject(t)
            rd   == Call(t, "read", st[f], Addressed(t, st), resp, Nil)
            how  == ReadOutcome(resp)
        IN
        IF how = "heal"
        THEN Outcome(Healed(st, f), rem, nid, <<rd>>, "reenter")
        ELSE IF how = "err" THEN Outcome(st, rem, nid, <<rd>>, "err")
        ELSE IF NeedsUpdate(t, old, obj) THEN
            LET r2 == Response(f2, Live(rem, t, st[f], st.ServerID), StatusOK)
                up == Call(t, "update", st[f], Carried(t, obj), r2, Nil)
            IN  Outcome(st,
                        IF r2.status = StatusOK
                        THEN Stored(rem, t, st[f], obj) ELSE rem,
                        nid, <<rd, up>>, UpdateOutcome(r2))
        ELSE Outcome(st, rem, nid, <<rd>>, "ok")
    ELSE
        LET resp == Response(f1, ParentLive(rem, t, obj), StatusCreated)
            made == resp.status = StatusCreated
            id   == IF made THEN nid[t] ELSE Nil
            cr   == Call(t, "create", Nil, Carried(t, obj), resp, id)
            out  == CreateOutcome(resp)
        IN  [Outcome(IF out.store THEN [st EXCEPT ![f] = id] ELSE st,
                     IF made THEN Stored(rem, t, id, obj) ELSE rem,
                     IF made THEN [nid EXCEPT ![t] = @ + 1] ELSE nid,
                     <<cr>>, out.ret)
             EXCEPT !.exhausted = made /\ nid[t] > MaxId]

\* EnsureDeleted of the four owning tasks
OwningEnsureDeleted(t, st, rem, nid, f1) ==
    LET f == RefField(t) IN
    IF ~HasReference(st, f) THEN Outcome(st, rem, nid, <<>>, "ok")
    ELSE IF t = "pool" /\ st.ServerID = Nil
    THEN Outcome(st, rem, nid, <<>>, "panic")
    ELSE
        LET resp == Response(f1, Live(rem, t, st[f], st.ServerID), StatusOK)
            dl   == Call(t, "delete", st[f], Addressed(t, st), resp, Nil)
            out  == DeleteOutcome(resp)
        IN  [Outcome(IF out.clear THEN [st EXCEPT ![f] = Nil] ELSE st,
                     IF resp.status = StatusOK
                     THEN Removed(rem, t, st[f]) ELSE rem,
                     nid, <<dl>>, out.ret)
             EXCEPT !.deleted = out.deleted]

\* index of the first listed edge cluster with the wanted display name, or 0
FirstEdgeCluster(list, name) ==
    IF \E i \in 1..Len(list) : list[i].name = name
    THEN CHOOSE i \in 1..Len(list) :
            /\ list[i].name = name
            /\ \A j \in 1..(i - 1) : list[j].name # name
    ELSE 0

\* mutant: a tag with the segment path matches whatever its scope
HasPolicyPathAnyScope(obj, path) ==
    \E k \in 1..Len(obj.tags) : obj.tags[k].tag = path

\* `tag.Scope == "policyPath" && tag.Tag == state.SegmentRef.Path`
HasPolicyPath(obj, path) ==
    \E k \in 1..Len(obj.tags) :
        obj.tags[k].scope = "policyPath" /\ obj.tags[k].tag = path

\* index of the first listed switch tagged with the segment path, or 0
FirstLogicalSwitch(list, path) ==
    IF \E i \in 1..Len(list) : HasPolicyPath(list[i], path)
    THEN CHOOSE i \in 1..Len(list) :
            /\ HasPolicyPath(list[i], path)
            /\ \A j \in 1..(i - 1) : ~HasPolicyPath(list[j], path)
    ELSE 0

EdgeClusterEnsure(sp, st, rem, nid, list, f1) ==
    LET resp    == Response(f1, TRUE, StatusOK)
        results == IF resp.status = StatusOK THEN list ELSE <<>>
        ls      == Call("edge", "list", Nil, <<>>, resp, Nil)
        i       == FirstEdgeCluster(results, sp.edgeName)
    IN
    IF resp.err THEN Outcome(st, rem, nid, <<ls>>, "err")
    ELSE IF i # 0
    THEN Outcome([st EXCEPT !.EdgeClusterID = results[i].id], rem, nid,
                 <<ls>>, "ok")
    ELSE Outcome(st, rem, nid, <<ls>>, "err")

\* mutant: a switch that is not found is created
LogicalSwitchEnsureCreates(st, rem, nid, list, f1) ==
    LET resp    == Response(f1, TRUE, StatusOK)
        results == IF resp.status = StatusOK THEN list ELSE <<>>
        ls      == Call("switch", "list", Nil, <<>>, resp, Nil)
        cr      == Call("switch", "create", Nil, <<>>,
                        Response("none", TRUE, StatusCreated), MaxId)
        i       == FirstLogicalSwitch(results, st.SegmentPath)
    IN
    IF resp.err THEN Outcome(st, rem, nid, <<ls>>, "err")
    ELSE IF resp.status # StatusOK THEN Outcome(st, rem, nid, <<ls>>, "err")
    ELSE IF i # 0
    THEN Outcome([st EXCEPT !.LogicalSwitchID = results[i].id], rem, nid,
                 <<ls>>, "ok")
    ELSE Outcome([st EXCEPT !.LogicalSwitchID = MaxId], rem, nid,
                 <<ls, cr>>, "ok")

LogicalSwitchEnsure(st, rem, nid, list, f1) ==
    LET resp    == Response(f1, TRUE, StatusOK)
        results == IF resp.status = StatusOK THEN list ELSE <<>>
        ls      == Call("switch", "list", Nil, <<>>, resp, Nil)
        i       == FirstLogicalSwitch(results, st.SegmentPath)
    IN
    IF resp.err THEN Outcome(st, rem, nid, <<ls>>, "err")
    ELSE IF resp.status # StatusOK THEN Outcome(st, rem, nid, <<ls>>, "err")
    ELSE IF i # 0
    THEN Outcome([st EXCEPT !.LogicalSwitchID = results[i].id], rem, nid,
                 <<ls>>, "ok")
    ELSE Outcome(st, rem, nid, <<ls>>, "err")

TaskEnsure(t, f1, f2) ==
    CASE t = "edge" ->
            EdgeClusterEnsure(spec, state, remote, nextId, edgeClusters, f1)
      [] t = "switch" ->
            LogicalSwitchEnsure(state, remote, nextId, switches, f1)
      [] OTHER -> OwningEnsure(t, spec, state, remote, nextId, f1, f2)

\* the second fault is drawn only when the task goes on to a second call
SecondFaults(t, f1) ==
    IF Len(TaskEnsure(t, f1, "none").calls) > 1 THEN Faults ELSE {"none"}

-----------------------------------------------------------------------------
(* Initial states *)

EdgeCluster(id, name) == [id |-> id, name |-> name]

LogicalSwitch(id, tags) == [id |-> id, tags |-> tags]

\* listings the API may return for the edge clusters
EdgeListings ==
    { <<EdgeCluster(1, "edge")>>,
      <<EdgeCluster(2, "other"), EdgeCluster(1, "edge")>>,
      <<EdgeCluster(2, "edge"), EdgeCluster(1, "edge")>>,
      <<EdgeCluster(2, "other")>> }

\* listings the API may return for the logical switches
SwitchListings ==
    { <<LogicalSwitch(1, <<Tag("policyPath", SegmentPath)>>)>>,
      <<LogicalSwitch(2, <<Tag("scope", SegmentPath)>>),
        LogicalSwitch(1, <<Tag("a", "b"), Tag("policyPath", SegmentPath)>>)>>,
      <<LogicalSwitch(2, <<Tag("policyPath", SegmentPath)>>),
        LogicalSwitch(1, <<Tag("policyPath", SegmentPath)>>)>>,
      <<LogicalSwitch(2, <<Tag("policyPath", "/infra/segments/other")>>)>> }

IdlePc == [mode |-> "idle", idx |-> 0, re |-> FALSE, any |-> FALSE]

NoLast == [op |-> "none", task |-> "none", ret |-> "none", deleted |-> FALSE]

EmptyState ==
    [EdgeClusterID |-> Nil, ProfileID |-> Nil, ServerID |-> Nil,
     LogicalSwitchID |-> Nil, PortID |-> Nil, IPPoolID |-> Nil,
     SegmentPath |-> SegmentPath]

\* a fresh infrastructure: nothing created, the segment already provisioned
Init ==
    /\ spec \in {sp \in SpecSet : sp.workers.hostBits = 8}
    /\ state = EmptyState
    /\ remote = [t \in Owning |-> <<>>]
    /\ nextId = [t \in Owning |-> 1]
    /\ edgeClusters = <<EdgeCluster(1, "edge")>>
    /\ switches = <<LogicalSwitch(1, <<Tag("policyPath", SegmentPath)>>)>>
    /\ pc = IdlePc
    /\ calls = <<>>
    /\ reported = {}
    /\ last = NoLast
    /\ drift = 0

-----------------------------------------------------------------------------
(* The ensurer *)

\* the caller invokes EnsureAll
EnsureAll ==
    /\ pc.mode = "idle"
    /\ pc' = [mode |-> "ensure", idx |-> 1, re |-> FALSE, any |-> FALSE]
    /\ calls' = <<>>
    /\ reported' = {}
    /\ last' = NoLast
    /\ UNCHANGED <<spec, state, remote, nextId, edgeClusters, switches, drift>>

\* EnsureAll runs task t: on success it goes on to the next task, on a
\* failure it returns the error
Ensure(t) ==
    /\ pc.mode = "ensure"
    /\ Tasks[pc.idx] = t
    /\ \E f1 \in Faults : \E f2 \in SecondFaults(t, f1) :
        LET r == TaskEnsure(t, f1, f2) IN
        /\ ~r.exhausted
        /\ drift + Failed(r.calls) <= MaxDisturbances
        /\ drift' = drift + Failed(r.calls)
        /\ state' = r.st
        /\ remote' = r.rem
        /\ nextId' = r.nid
        /\ calls' = IF pc.re THEN calls \o r.calls ELSE r.calls
        /\ pc' = IF r.ret = "reenter" THEN [pc EXCEPT !.re = TRUE]
                 ELSE IF r.ret = "ok" /\ pc.idx < Len(Tasks)
                 THEN [pc EXCEPT !.idx = @ + 1, !.re = FALSE]
                 ELSE IdlePc
        /\ last' = IF r.ret = "reenter" \/ (r.ret = "ok" /\ pc.idx < Len(Tasks))
                   THEN last
                   ELSE [op |-> "EnsureAll", task |-> t, ret |-> r.ret,
                         deleted |-> FALSE]
    /\ UNCHANGED <<spec, edgeClusters, switches, reported>>

EnsureEdgeCluster == Ensure("edge")
EnsureProfile == Ensure("profile")
EnsureServer == Ensure("server")
EnsureLogicalSwitch == Ensure("switch")
EnsurePort == Ensure("port")
EnsureIPPool == Ensure("pool")

\* the caller invokes EnsureAllDeleted
EnsureAllDeleted ==
    /\ pc.mode = "idle"
    /\ pc' = [mode |-> "delete", idx |-> Len(Tasks), re |-> FALSE,
              any |-> FALSE]
    /\ calls' = <<>>
    /\ reported' = {}
    /\ last' = NoLast
    /\ UNCHANGED <<spec, state, remote, nextId, edgeClusters, switches, drift>>

\* the position after task pc.idx of a deletion pass ended with `ret`
AfterDeleted(t, ret, deleted) ==
    IF ret = "ok" /\ pc.idx > 1
    THEN [pc EXCEPT !.idx = @ - 1, !.any = @ \/ deleted]
    ELSE IdlePc

LastDeleted(t, ret, deleted) ==
    IF ret = "ok" /\ pc.idx > 1 THEN last
    ELSE [op |-> "EnsureAllDeleted", task |-> t, ret |-> ret,
          deleted |-> pc.any \/ deleted]

\* EnsureAllDeleted runs EnsureDeleted of the owning task t
EnsureDeleted(t) ==
    /\ pc.mode = "delete"
    /\ Tasks[pc.idx] = t
    /\ \E f1 \in Faults :
        LET r == OwningEnsureDeleted(t, state, remote, nextId, f1) IN
        /\ drift + Failed(r.calls) <= MaxDisturbances
        /\ drift' = drift + Failed(r.calls)
        /\ state' = r.st
        /\ remote' = r.rem
        /\ calls' = r.calls
        /\ reported' = IF r.deleted THEN reported \cup {t} ELSE reported
        /\ pc' = AfterDeleted(t, r.ret, r.deleted)
        /\ last' = LastDeleted(t, r.ret, r.deleted)
    /\ UNCHANGED <<spec, nextId, edgeClusters, switches>>

EnsureIPPoolDeleted == EnsureDeleted("pool")
EnsurePortDeleted == EnsureDeleted("port")
EnsureServerDeleted == EnsureDeleted("server")
EnsureProfileDeleted == EnsureDeleted("profile")

\* EnsureAllDeleted passes over a lookup task: it deletes nothing
SkipLookupDeleted ==
    /\ pc.mode = "delete"
    /\ Tasks[pc.idx] \notin Owning
    /\ pc' = AfterDeleted(Tasks[pc.idx], "ok", FALSE)
    /\ last' = LastDeleted(Tasks[pc.idx], "ok", FALSE)
    /\ calls' = <<>>
    /\ UNCHANGED <<spec, state, remote, nextId, edgeClusters, switches,
                   reported, drift>>

-----------------------------------------------------------------------------
(* The environment: changes made to NSX-T behind the engine's back *)

Edits(t, obj) ==
    {[obj EXCEPT !.name = "renamed"]}
    \cup (IF t = "server" THEN {[obj EXCEPT !.dns = Reverse(@)]} ELSE {})
    \cup (IF t = "port" THEN {[obj EXCEPT !.tags = Reverse(@)]} ELSE {})
    \cup (IF t = "pool" THEN {[obj EXCEPT !.errorThreshold = 50]} ELSE {})

ExternalDelete ==
    /\ pc.mode = "idle"
    /\ drift < MaxDisturbances
    /\ \E t \in Owning : \E id \in DOMAIN remote[t] :
        remote' = Removed(remote, t, id)
    /\ drift' = drift + 1
    /\ last' = NoLast
    /\ calls' = <<>>
    /\ reported' = {}
    /\ UNCHANGED <<spec, state, nextId, edgeClusters, switches, pc>>

ExternalEdit ==
    /\ pc.mode = "idle"
    /\ drift < MaxDisturbances
    /\ \E t \in Owning : \E id \in DOMAIN remote[t] :
        \E obj \in Edits(t, remote[t][id]) :
            remote' = Stored(remote, t, id, obj)
    /\ drift' = drift + 1
    /\ last' = NoLast
    /\ calls' = <<>>
    /\ reported' = {}
    /\ UNCHANGED <<spec, state, nextId, edgeClusters, switches, pc>>

ExternalRelist ==
    /\ pc.mode = "idle"
    /\ drift < MaxDisturbances
    /\ \/ edgeClusters' \in EdgeListings \ {edgeClusters}
          /\ UNCHANGED switches
       \/ switches' \in SwitchListings \ {switches}
          /\ UNCHANGED edgeClusters
    /\ drift' = drift + 1
    /\ last' = NoLast
    /\ calls' = <<>>
    /\ reported' = {}
    /\ UNCHANGED <<spec, state, remote, nextId, pc>>

Next ==
    \/ EnsureAll
    \/ EnsureEdgeCluster
    \/ EnsureProfile
    \/ EnsureServer
    \/ EnsureLogicalSwitch
    \/ EnsurePort
    \/ EnsureIPPool
    \/ EnsureAllDeleted
    \/ EnsureIPPoolDeleted
    \/ EnsurePortDeleted
    \/ EnsureServerDeleted
    \/ EnsureProfileDeleted
    \/ SkipLookupDeleted
    \/ ExternalDelete
    \/ ExternalEdit
    \/ ExternalRelist

Spec == Init /\ [][Next]_vars

-----------------------------------------------------------------------------
(* The caller retries EnsureAll, with the Spec and the State the pass before *)
(* left, while calls fail and objects are deleted or edited out of band.     *)

\* an out-of-band delete while the API still has an id for the recreation
ExternalDeleteRecoverable ==
    /\ \A k \in Owning : nextId[k] <= MaxId
    /\ ExternalDelete

\* the steps of the engine and of its caller in a retried EnsureAll
Reconcile ==
    \/ EnsureAll
    \/ EnsureEdgeCluster
    \/ EnsureProfile
    \/ EnsureServer
    \/ EnsureLogicalSwitch
    \/ EnsurePort
    \/ EnsureIPPool

NextRetry ==
    \/ Reconcile
    \/ ExternalDeleteRecoverable
    \/ ExternalEdit

\* the caller re-invokes EnsureAll on its retry schedule and every task call
\* is synchronous and returns: a pending step of the engine is taken.  Failed
\* calls and external changes stop after MaxDisturbances of them.
SpecRetry == Init /\ [][NextRetry]_vars /\ WF_vars(Reconcile)

-----------------------------------------------------------------------------
(* One task called on its own, again and again, on any State a caller may  *)
(* hand in: pc.idx is the task under test.                                 *)

AllRefs(id) ==
    [EdgeClusterID |-> id, ProfileID |-> id, ServerID |-> id,
     LogicalSwitchID |-> id, PortID |-> id, IPPoolID |-> id,
     SegmentPath |-> SegmentPath]

\* every Reference absent or 1; the objects 1 all absent, or all present as
\* the tasks build them
InitTask ==
    /\ spec \in SpecSet
    /\ state \in [EdgeClusterID : {Nil, 1}, ProfileID : {Nil, 1},
                  ServerID : {Nil, 1}, LogicalSwitchID : {Nil, 1},
                  PortID : {Nil, 1}, IPPoolID : {Nil, 1},
                  SegmentPath : {SegmentPath}]
    /\ \E live \in {{}, Owning} :
         remote = [t \in Owning |->
                     IF t \in live
                     THEN (1 :> Desired(t, spec, AllRefs(1))) ELSE <<>>]
    /\ nextId = [t \in Owning |-> 2]
    /\ edgeClusters = <<EdgeCluster(1, "edge")>>
    /\ switches = <<LogicalSwitch(1, <<Tag("policyPath", SegmentPath)>>)>>
    /\ pc \in {[IdlePc EXCEPT !.idx = i] : i \in 1..Len(Tasks)}
    /\ calls = <<>>
    /\ reported = {}
    /\ last = NoLast
    /\ drift = 0

\* one call of task t's Ensure; a self-heal re-enters it in a second step
CallEnsure(t) ==
    /\ pc.mode \in {"idle", "call"}
    /\ Tasks[pc.idx] = t
    /\ \E f1 \in Faults : \E f2 \in SecondFaults(t, f1) :
        LET r == TaskEnsure(t, f1, f2) IN
        /\ ~r.exhausted
        /\ drift + Failed(r.calls) <= MaxDisturbances
        /\ drift' = drift + Failed(r.calls)
        /\ state' = r.st
        /\ remote' = r.rem
        /\ nextId' = r.nid
        /\ calls' = IF pc.re THEN calls \o r.calls ELSE r.calls
        /\ pc' = IF r.ret = "reenter"
                 THEN [pc EXCEPT !.mode = "call", !.re = TRUE]
                 ELSE [pc EXCEPT !.mode = "idle", !.re = FALSE]
        /\ last' = [op |-> "Ensure", task |-> t, ret |-> r.ret,
                    deleted |-> FALSE]
    /\ UNCHANGED <<spec, edgeClusters, switches, reported>>

CallEnsureEdgeCluster == CallEnsure("edge")
CallEnsureProfile == CallEnsure("profile")
CallEnsureServer == CallEnsure("server")
CallEnsureLogicalSwitch == CallEnsure("switch")
CallEnsurePort == CallEnsure("port")
CallEnsureIPPool == CallEnsure("pool")

\* one call of task t's EnsureDeleted
CallEnsureDeleted(t) ==
    /\ pc.mode = "idle"
    /\ Tasks[pc.idx] = t
    /\ \E f1 \in Faults :
        LET r == OwningEnsureDeleted(t, state, remote, nextId, f1) IN
        /\ drift + Failed(r.calls) <= MaxDisturbances
        /\ drift' = drift + Failed(r.calls)
        /\ state' = r.st
        /\ remote' = r.rem
        /\ calls' = r.calls
        /\ last' = [op |-> "EnsureDeleted", task |-> t, ret |-> r.ret,
                    deleted |-> r.deleted]
    /\ UNCHANGED <<spec, nextId, edgeClusters, switches, pc, reported>>

CallEnsureProfileDeleted == CallEnsureDeleted("profile")
CallEnsureServerDeleted == CallEnsureDeleted("server")
CallEnsurePortDeleted == CallEnsureDeleted("port")
CallEnsureIPPoolDeleted == CallEnsureDeleted("pool")

NextTask ==
    \/ CallEnsureEdgeCluster
    \/ CallEnsureProfile
    \/ CallEnsureServer
    \/ CallEnsureLogicalSwitch
    \/ CallEnsurePort
    \/ CallEnsureIPPool
    \/ CallEnsureProfileDeleted
    \/ CallEnsureServerDeleted
    \/ CallEnsurePortDeleted
    \/ CallEnsureIPPoolDeleted

SpecTask == InitTask /\ [][NextTask]_vars

-----------------------------------------------------------------------------
(* The diff of an owning task: its Ensure called on a stored object that is *)
(* the desired one but for its tags, its DNS servers or its thresholds.     *)

\* tag lists of up to MaxTags tags, repeated tags included
TagLists ==
    UNION {[1..n -> {CommonTags[i] : i \in 1..Len(CommonTags)}] : n \in 0..MaxTags}

\* the stored objects a diff is run on
Drifted(t, obj) ==
    LET fields ==
            CASE t = "server" -> {obj, [obj EXCEPT !.dns = Reverse(@)]}
              [] t = "pool"   ->
                    {[obj EXCEPT !.errorThreshold = e, !.warningThreshold = w] :
                        e \in {ErrorThreshold, 50}, w \in {WarningThreshold, 60}}
              [] OTHER        -> {obj}
    IN  {[o EXCEPT !.tags = tg] : o \in fields, tg \in TagLists}

InitDiff ==
    /\ spec \in [name : {"shoot"}, workers : {[base |-> 0, hostBits |-> 8]},
                 dns : {<<"dns1", "dns2">>}, edgeName : {"edge"},
                 tags : TagLists]
    /\ state = AllRefs(1)
    /\ pc \in {[IdlePc EXCEPT !.idx = TaskIndex(t)] : t \in Owning}
    /\ \E obj \in Drifted(Tasks[pc.idx], Desired(Tasks[pc.idx], spec, state)) :
         remote = [t \in Owning |->
                     1 :> (IF t = Tasks[pc.idx] THEN obj
                           ELSE Desired(t, spec, state))]
    /\ nextId = [t \in Owning |-> 2]
    /\ edgeClusters = <<EdgeCluster(1, "edge")>>
    /\ switches = <<LogicalSwitch(1, <<Tag("policyPath", SegmentPath)>>)>>
    /\ calls = <<>>
    /\ reported = {}
    /\ last = NoLast
    /\ drift = 0

NextDiff ==
    \/ CallEnsureProfile
    \/ CallEnsureServer
    \/ CallEnsurePort
    \/ CallEnsureIPPool

SpecDiff == InitDiff /\ [][NextDiff]_vars

-----------------------------------------------------------------------------
(* The addresses of the server and pool tasks: their Ensure called for      *)
(* worker subnets of every size up to MaxHostBits host bits.                *)

\* worker subnets at 0.0.0.0 and at 10.0.0.0, from a /31 on
AddressNets ==
    {[base |-> b, hostBits |-> h] : b \in {0, 167772160}, h \in 1..MaxHostBits}

\* the remote holds nothing, or the objects as the tasks build them, or these
\* objects renamed
InitAddress ==
    /\ spec \in [name : {"shoot"}, workers : AddressNets,
                 dns : {<<"dns1", "dns2">>}, edgeName : {"edge"},
                 tags : {CommonTags}]
    /\ pc \in {[IdlePc EXCEPT !.idx = TaskIndex(t)] : t \in {"server", "pool"}}
    /\ state \in {AllRefs(1), [AllRefs(1) EXCEPT ![RefField(Tasks[pc.idx])] = Nil]}
    /\ \E name \in {"", spec.name, "renamed"} :
         remote = [t \in Owning |->
                     IF name = "" THEN <<>>
                     ELSE 1 :> [Desired(t, spec, AllRefs(1))
                                    EXCEPT !.name = name]]
    /\ nextId = [t \in Owning |-> 2]
    /\ edgeClusters = <<EdgeCluster(1, "edge")>>
    /\ switches = <<LogicalSwitch(1, <<Tag("policyPath", SegmentPath)>>)>>
    /\ calls = <<>>
    /\ reported = {}
    /\ last = NoLast
    /\ drift = 0

NextAddress ==
    \/ CallEnsureServer
    \/ CallEnsureIPPool

SpecAddress == InitAddress /\ [][NextAddress]_vars

-----------------------------------------------------------------------------
(* Properties *)

NoWrite(cs) == \A i \in 1..Len(cs) : cs[i].op \notin Writes

NoCreate(cs) == \A i \in 1..Len(cs) : cs[i].op # "create"

Ref(t) == state[RefField(t)]

\* C1: Idempotence.  After an Ensure of a task that returned success, a second
\* Ensure of the same task on the State the first call left, with the same
\* Spec, no change in between and no failing remote call, issues no create,
\* update or delete and leaves State unchanged.
C1_SecondEnsureWritesNothing ==
    [][(/\ pc.mode = "idle"
        /\ last.op = "Ensure" /\ last.ret = "ok"
        /\ last'.op = "Ensure" /\ last'.task = last.task
        /\ drift' = drift)
       => (NoWrite(calls') /\ state' = state)]_vars

\* C2: Self-heal.  When an Ensure call read its Reference, got 404, and the
\* create that followed succeeded, the call returned success, issued exactly
\* that read and that one create, and the Reference is the id of the object
\* just created, not the stale id.
C2_SelfHealRecreates ==
    (/\ pc.mode = "idle" /\ last.op = "Ensure"
     /\ Len(calls) >= 2
     /\ calls[1].op = "read" /\ calls[1].status = StatusNotFound
     /\ \E i \in 1..Len(calls) :
            calls[i].op = "create" /\ calls[i].status = StatusCreated)
    => /\ last.ret = "ok"
       /\ Len(calls) = 2
       /\ calls[2].op = "create"
       /\ Ref(last.task) = calls[2].newid
       /\ Ref(last.task) # Nil
       /\ Ref(last.task) # calls[1].id
       /\ Ref(last.task) \in DOMAIN remote[last.task]

C2_Witness ==
    /\ pc.mode = "idle" /\ last.op = "Ensure" /\ last.ret = "ok"
    /\ Len(calls) = 2
    /\ calls[1].op = "read" /\ calls[1].status = StatusNotFound
    /\ calls[2].op = "create" /\ calls[2].status = StatusCreated
    /\ Ref(last.task) = 2

\* C3: Order enforcement, create side.  An Ensure of the pool task on a State
\* whose server Reference is absent ends in failure (an error, or the runtime
\* panic of dereferencing the nil server id), issues no create call and
\* leaves the pool Reference as it was.
C3_PoolFailsWithoutServer ==
    [][(/\ state.ServerID = Nil
        /\ last'.op = "Ensure" /\ last'.task = "pool")
       => /\ last'.ret \in {"err", "panic"}
          /\ NoCreate(calls')
          /\ state'.IPPoolID = state.IPPoolID]_vars

C3_Witness ==
    /\ last.op = "Ensure" /\ last.task = "pool" /\ last.ret = "panic"
    /\ state.ServerID = Nil
    /\ calls = <<>>

\* C4: Order enforcement, delete side.  An EnsureAllDeleted pass starts at the
\* last task and steps back one task at a time; only the task it is at issues
\* calls; a delete of the server is issued only when the pool and port
\* References are absent, a delete of the profile only when the server
\* Reference is absent.
C4_DeleteInReverseOrder ==
    [][/\ (pc.mode = "idle" /\ pc'.mode = "delete") => pc'.idx = Len(Tasks)
       /\ pc.mode = "delete" =>
            /\ pc'.mode = "delete" => pc'.idx = pc.idx - 1
            /\ \A i \in 1..Len(calls') :
                /\ calls'[i].task = Tasks[pc.idx]
                /\ (calls'[i].op = "delete" /\ calls'[i].task = "server")
                      => (state.IPPoolID = Nil /\ state.PortID = Nil)
                /\ (calls'[i].op = "delete" /\ calls'[i].task = "profile")
                      => state.ServerID = Nil]_vars

C4_Witness ==
    /\ pc.mode = "delete" /\ Tasks[pc.idx] = "profile"
    /\ Len(calls) = 1 /\ calls[1].op = "delete" /\ calls[1].task = "server"
    /\ reported = {"pool", "port", "server"}

\* C5: Deletion idempotence.  After an EnsureDeleted of a task that returned
\* without error, a second EnsureDeleted of the same task on the resulting
\* State returns "nothing deleted" without error, issues no remote call and
\* leaves State unchanged.
C5_SecondEnsureDeletedDoesNothing ==
    [][(/\ last.op = "EnsureDeleted" /\ last.ret = "ok"
        /\ last'.op = "EnsureDeleted" /\ last'.task = last.task)
       => /\ last'.ret = "ok"
          /\ ~last'.deleted
          /\ calls' = <<>>
          /\ state' = state]_vars

\* the object of the task under test is gone while the others of the initial
\* state are there: an EnsureDeleted deleted it, and another one followed
C5_Witness ==
    /\ last.op = "EnsureDeleted" /\ last.ret = "ok" /\ ~last.deleted
    /\ calls = <<>>
    /\ last.task = "server"
    /\ Ref("server") = Nil
    /\ remote["server"] = <<>>
    /\ remote["profile"] # <<>>

OwnedStepsThroughNil(t) ==
    state'[RefField(t)] # state[RefField(t)]
        => (state[RefField(t)] = Nil \/ state'[RefField(t)] = Nil)

\* C6 as stated: each of the six References only ever steps from absent to an
\* id or from an id to absent.
C6_AllReferencesStepThroughNil ==
    [][\A i \in 1..Len(Tasks) : OwnedStepsThroughNil(Tasks[i])]_vars

\* C6: Reference identity.  Each of the four owned References (profile,
\* server, port, pool) only ever steps from absent to an id or from an id to
\* absent.  The two looked-up References (edge cluster, logical switch) are
\* overwritten by every successful lookup and are never reset to absent.
C6_OwnedReferencesStepThroughNil ==
    [][/\ \A t \in Owning : OwnedStepsThroughNil(t)
       /\ \A t \in {"edge", "switch"} :
            state[RefField(t)] # Nil => state'[RefField(t)] # Nil]_vars

\* a profile was lost, and recreated under a new id, in an EnsureAll pass
C6_Witness ==
    /\ pc.mode = "ensure" /\ Tasks[pc.idx] = "server"
    /\ Len(calls) = 2 /\ calls[1].task = "profile"
    /\ calls[1].op = "read" /\ calls[1].id = 1
    /\ calls[2].op = "create"
    /\ state.ProfileID = 2

\* C7: EnsureAll halts at the first failing task.  In a pass only the task it
\* is at issues remote calls, none of them a delete, and only that task's
\* Reference changes; when a task fails the pass ends there, and the
\* References of all earlier tasks are present.
C7_HaltsAtFirstFailure ==
    [][pc.mode = "ensure" =>
        /\ \A i \in 1..Len(calls') :
            calls'[i].task = Tasks[pc.idx] /\ calls'[i].op # "delete"
        /\ \A j \in 1..Len(Tasks) :
            j # pc.idx => state'[RefField(Tasks[j])] = state[RefField(Tasks[j])]
        /\ pc'.mode = "ensure" => pc'.idx \in {pc.idx, pc.idx + 1}
        /\ (pc'.mode = "ensure" /\ pc'.idx = pc.idx + 1) =>
                state'[RefField(Tasks[pc.idx])] # Nil
        /\ (last'.op = "EnsureAll" /\ last'.ret # "ok") =>
            /\ pc'.mode = "idle"
            /\ last'.task = Tasks[pc.idx]
            /\ \A j \in 1..(pc.idx - 1) : state'[RefField(Tasks[j])] # Nil]_vars

C7_Witness ==
    /\ pc.mode = "idle" /\ last.op = "EnsureAll" /\ last.ret = "err"
    /\ last.task = "port"
    /\ Len(calls) = 1 /\ calls[1].op = "create" /\ calls[1].task = "port"
    /\ state.ServerID # Nil /\ state.PortID = Nil

\* the parent ids of State a create or update of task t has to carry
Parents(t, st) ==
    CASE t = "profile" -> <<st.EdgeClusterID>>
      [] t = "server"  -> <<st.ProfileID>>
      [] t = "port"    -> <<st.ServerID, st.LogicalSwitchID>>
      [] t = "pool"    -> <<st.ServerID>>

\* C8: Forward dependency order.  An EnsureAll pass starts at the edge-cluster
\* lookup and goes through profile, server, logical-switch lookup, port and
\* pool in this order; every create or update carries the parent ids State
\* holds, none of them absent.
C8_ForwardOrderCarriesParents ==
    [][/\ (pc.mode = "idle" /\ pc'.mode = "ensure") => pc'.idx = 1
       /\ pc.mode = "ensure" =>
            /\ pc'.mode = "ensure" => pc'.idx \in {pc.idx, pc.idx + 1}
            /\ \A i \in 1..Len(calls') :
                /\ calls'[i].task = Tasks[pc.idx]
                /\ calls'[i].op \in {"create", "update"} =>
                    /\ calls'[i].carried = Parents(calls'[i].task, state)
                    /\ \A k \in 1..Len(calls'[i].carried) :
                            calls'[i].carried[k] # Nil]_vars

C8_Witness ==
    /\ pc.mode = "idle" /\ last.op = "EnsureAll" /\ last.ret = "ok"
    /\ Len(calls) = 1 /\ calls[1].op = "create" /\ calls[1].task = "pool"
    /\ calls[1].carried = <<state.ServerID>>
    /\ state.ServerID = 2

\* C9: EnsureAllDeleted.  A task whose Reference is absent is passed over
\* without a remote call and without an error; a delete answered 404 is no
\* deletion, any other delete that returns no error is one; a task that fails
\* ends the pass; the pass reports a deletion exactly when a task reported one.
C9_EnsureAllDeletedReports ==
    [][pc.mode = "delete" =>
        LET t == Tasks[pc.idx] IN
        /\ (t \in Owning /\ state[RefField(t)] = Nil) =>
            /\ calls' = <<>>
            /\ state' = state
            /\ reported' = reported
            /\ pc'.mode = "delete" \/ (last'.ret = "ok" /\ pc.idx = 1)
        /\ \A i \in 1..Len(calls') :
            (calls'[i].op = "delete" /\ calls'[i].status = StatusNotFound)
                => reported' = reported
        /\ reported' # reported =>
            /\ reported' = reported \cup {t}
            /\ Len(calls') = 1 /\ calls'[1].op = "delete"
            /\ calls'[1].status # StatusNotFound
        /\ pc'.mode = "delete" => pc'.any = (reported' # {})
        /\ last'.op = "EnsureAllDeleted" =>
            /\ pc'.mode = "idle"
            /\ last'.deleted = (reported' # {})
            /\ last'.ret = "ok" => pc.idx = 1]_vars

\* a finished pass that deleted the pool, the server and the profile and
\* found the port gone already
C9_Witness ==
    /\ pc.mode = "idle" /\ last.op = "EnsureAllDeleted" /\ last.ret = "ok"
    /\ last.deleted
    /\ reported = {"pool", "server", "profile"}
    /\ state.PortID = Nil

\* C10: Not-found on delete is success.  When an EnsureDeleted call issued its
\* delete and the answer was 404, the call returned no error, reported nothing
\* deleted, and the Reference is absent.
C10_NotFoundOnDeleteIsSuccess ==
    (/\ last.op = "EnsureDeleted"
     /\ Len(calls) = 1
     /\ calls[1].op = "delete" /\ calls[1].status = StatusNotFound)
    => /\ last.ret = "ok"
       /\ ~last.deleted
       /\ Ref(last.task) = Nil

C10_Witness ==
    /\ last.op = "EnsureDeleted" /\ last.task = "port"
    /\ Len(calls) = 1
    /\ calls[1].op = "delete" /\ calls[1].status = StatusNotFound
    /\ calls[1].id = 1
    /\ Ref("port") = Nil

\* a response that came with a nil error and a status the caller does not
\* expect
UnexpectedStatus(c) ==
    c.status # 0 /\ c.status \notin {StatusOK, StatusCreated, StatusNotFound}

\* C11: Failed delete keeps the Reference.  When the remote delete of an
\* owning task fails with anything other than not-found (a transport error or
\* a non-success status), EnsureDeleted returns an error, reports nothing
\* deleted, leaves the Reference present with the same id, and the
\* EnsureAllDeleted pass halts there.
C11_FailedDeleteKeepsReference ==
    [][(/\ pc.mode = "delete"
        /\ Len(calls') = 1
        /\ calls'[1].op = "delete"
        /\ calls'[1].status \notin {StatusOK, StatusNotFound})
       => /\ last'.op = "EnsureAllDeleted" /\ last'.ret = "err"
          /\ reported' = reported
          /\ state' = state
          /\ pc'.mode = "idle"]_vars

\* C12: A non-success status is never ignored.  Whenever a remote call of a
\* task came back with a nil error and a status that is neither the expected
\* success status nor not-found, the task returned an error and made no
\* further call; a delete answered so has not cleared the Reference.
C12_NonSuccessStatusNeverIgnored ==
    \A i \in 1..Len(calls) :
        UnexpectedStatus(calls[i]) =>
            /\ last.ret = "err"
            /\ i = Len(calls)
            /\ calls[i].op = "delete" => Ref(last.task) # Nil

\* an EnsureAll pass has returned success and all six References are present
Converged ==
    /\ pc.mode = "idle"
    /\ last.op = "EnsureAll" /\ last.ret = "ok"
    /\ \A f \in RefFields : state[f] # Nil

\* a task of a pass creates only with its Reference absent, and after a
\* self-heal only when the object it read is gone
CreatesOnlyWhatIsMissing ==
    (pc.mode = "ensure" /\ \E i \in 1..Len(calls') : calls'[i].op = "create")
    => LET t == Tasks[pc.idx] IN
       /\ t \in Owning
       /\ state[RefField(t)] = Nil
       /\ pc.re => /\ calls[1].op = "read"
                   /\ ~Live(remote, t, calls[1].id, state.ServerID)

\* C13: Convergence by retry.  When the caller keeps re-invoking EnsureAll with
\* the same Spec and the State the previous pass left, and remote calls stop
\* failing, then again and again an EnsureAll pass returns success with all
\* six References present; no pass issues a create for a resource whose
\* Reference is present and whose object still exists.
C13_ConvergesByRetry ==
    /\ []<>Converged
    /\ [][CreatesOnlyWhatIsMissing]_vars

\* converged again after the server was lost and a call had failed
C13_Witness ==
    /\ Converged
    /\ drift = MaxDisturbances
    /\ state.ServerID = 2 /\ state.IPPoolID = 2
    /\ state.ProfileID = 1

\* C14: Read failure is side-effect free.  When the read of an owning task's
\* Ensure fails with anything other than not-found (a transport error or a
\* non-success status), Ensure returns an error, issues no create or update
\* call and leaves every Reference in State unchanged.
C14_ReadFailureHasNoEffect ==
    [][(/\ last'.op = "Ensure"
        /\ Len(calls') >= 1
        /\ calls'[1].op = "read"
        /\ calls'[1].status \notin {StatusOK, StatusNotFound})
       => /\ last'.ret = "err"
          /\ Len(calls') = 1
          /\ state' = state]_vars

\* the calls of a sequence that are the operation op
Issued(cs, op) == Cardinality({i \in 1..Len(cs) : cs[i].op = op})

\* C15: Bounded self-heal.  One Ensure call of an owning task issues at most
\* one read and at most one create, also when the read is answered not-found;
\* the invocation that a self-heal re-enters does not re-enter again: it ends
\* the call.
C15_BoundedSelfHeal ==
    [][last'.op = "Ensure" =>
        /\ Issued(calls', "read") <= 1
        /\ Issued(calls', "create") <= 1
        /\ pc.re => (pc'.mode = "idle" /\ ~pc'.re)]_vars

\* the pool was read, found gone, and created again in the re-entered
\* invocation, which ended the call
C15_Witness ==
    /\ pc.mode = "idle" /\ ~pc.re
    /\ last.op = "Ensure" /\ last.task = "pool"
    /\ Len(calls) = 2
    /\ calls[1].op = "read" /\ calls[1].status = StatusNotFound
    /\ calls[2].op = "create"

\* C16: Create outcome.  A Reference of an owning task goes from absent to
\* present only in an Ensure whose create came back with the created status
\* and no error, and then it is the created id; a create that came back with a
\* transport error or any other status makes Ensure return an error with the
\* Reference absent, also when the create follows a self-heal.
C16_CreateOutcome ==
    [][last'.op = "Ensure" =>
        LET t == last'.task
            n == Len(calls')
        IN  /\ (/\ t \in Owning
                 /\ state[RefField(t)] = Nil
                 /\ state'[RefField(t)] # Nil) =>
                    /\ n >= 1
                    /\ calls'[n].op = "create"
                    /\ calls'[n].status = StatusCreated
            /\ (n >= 1 /\ calls'[n].op = "create") =>
                    IF calls'[n].status = StatusCreated
                    THEN /\ last'.ret = "ok"
                         /\ state'[RefField(t)] = calls'[n].newid
                         /\ state'[RefField(t)] # Nil
                    ELSE /\ last'.ret = "err"
                         /\ state'[RefField(t)] = Nil]_vars

\* the server was read, found gone, and the create that followed failed: the
\* stale id is not restored
C16_Witness ==
    /\ last.op = "Ensure" /\ last.task = "server" /\ last.ret = "err"
    /\ Len(calls) = 2
    /\ calls[1].op = "read" /\ calls[1].status = StatusNotFound
    /\ calls[2].op = "create" /\ calls[2].status # StatusCreated
    /\ Ref("server") = Nil

\* the two lists hold the same elements the same number of times
SameElements(a, b) ==
    /\ Len(a) = Len(b)
    /\ \A i \in 1..Len(a) :
          Cardinality({j \in 1..Len(a) : a[j] = a[i]})
              = Cardinality({j \in 1..Len(b) : b[j] = a[i]})

\* a compared field of the stored pool differs from the desired pool
PoolDiffers(old, new) ==
    \/ old.name # new.name
    \/ old.gatewayIp # new.gatewayIp
    \/ old.lease # new.lease
    \/ old.errorThreshold # new.errorThreshold
    \/ old.warningThreshold # new.warningThreshold
    \/ old.ranges # new.ranges
    \/ ~SameElements(old.tags, new.tags)

\* this step is an Ensure of task t whose read of the stored object succeeded
ReadForDiff(t) ==
    /\ ~pc.re
    /\ last'.op = "Ensure" /\ last'.task = t
    /\ Len(calls') >= 1
    /\ calls'[1].op = "read" /\ calls'[1].status = StatusOK

\* C17: Pool update decision.  An Ensure of the pool task whose read succeeded
\* issues an update if and only if a compared field of the stored pool (name,
\* gateway, lease time, error threshold, warning threshold, the allocation
\* range, tags) differs from the desired pool.
C17_PoolUpdatedIffDiffers ==
    [][ReadForDiff("pool") =>
        (Issued(calls', "update") = 1
            <=> PoolDiffers(remote["pool"][state.IPPoolID],
                            DesiredPool(spec, state)))]_vars

\* C18: Tag-set equality is multiset equality.  For the tag lists a of a stored
\* object and b of the Spec, repeated tags included, equalCommonTags(a, b) is
\* true exactly when a and b hold the same tags the same number of times, and
\* equalCommonTags(a, b) = equalCommonTags(b, a).
C18_TagEqualityIsMultisetEquality ==
    \A t \in Owning : \A id \in DOMAIN remote[t] :
        LET a == remote[t][id].tags
            b == spec.tags
        IN  /\ equalCommonTags(a, b) <=> SameElements(a, b)
            /\ equalCommonTags(a, b) <=> equalCommonTags(b, a)

\* C19: Diff semantics of the server task.  An Ensure of the server task whose
\* read succeeded issues exactly one update when the stored server is the
\* desired one but for a different order of its DNS servers, and no update
\* when it is the desired one but for a different order of its tags.
C19_ServerDiffOrder ==
    [][ReadForDiff("server") =>
        LET old == remote["server"][state.ServerID]
            new == DesiredServer(spec, state)
        IN  /\ (/\ old = [new EXCEPT !.dns = old.dns]
                /\ old.dns # new.dns
                /\ SameElements(old.dns, new.dns))
               => Issued(calls', "update") = 1
            /\ (/\ old = [new EXCEPT !.tags = old.tags]
                /\ old.tags # new.tags
                /\ SameElements(old.tags, new.tags))
               => Issued(calls', "update") = 0]_vars

\* the stored server has the DNS servers in reverse order and nothing else
\* differs: Ensure read it and issued the update, which failed
C19_Witness ==
    /\ last.op = "Ensure" /\ last.task = "server" /\ last.ret = "err"
    /\ Len(calls) = 2
    /\ calls[1].op = "read" /\ calls[1].status = StatusOK
    /\ calls[2].op = "update"
    /\ remote["server"][1]
         = [DesiredServer(spec, state) EXCEPT !.dns = Reverse(spec.dns)]

\* C20: Logical-switch lookup.  When the switches were listed and one of them
\* carries a tag with scope "policyPath" whose value is the segment path of
\* State, Ensure sets the logical-switch Reference to the id of the first such
\* switch of the list and succeeds; when none does, Ensure returns an error,
\* issues no create, update or delete and leaves State as it was.
C20_LogicalSwitchLookup ==
    [][(/\ pc.mode = "ensure" /\ Tasks[pc.idx] = "switch"
        /\ Len(calls') = 1
        /\ calls'[1].op = "list" /\ calls'[1].status = StatusOK)
       => LET Marked(i) ==
                \E k \in 1..Len(switches[i].tags) :
                    /\ switches[i].tags[k].scope = "policyPath"
                    /\ switches[i].tags[k].tag = state.SegmentPath
          IN  IF \E i \in 1..Len(switches) : Marked(i)
              THEN /\ \E i \in 1..Len(switches) :
                        /\ Marked(i)
                        /\ \A j \in 1..(i - 1) : ~Marked(j)
                        /\ state'.LogicalSwitchID = switches[i].id
                   /\ pc'.mode = "ensure" /\ Tasks[pc'.idx] = "port"
              ELSE /\ last'.op = "EnsureAll" /\ last'.ret = "err"
                   /\ last'.task = "switch"
                   /\ NoWrite(calls')
                   /\ state' = state]_vars

\* the second switch of the listing is the first one marked with the segment
\* path; the lookup took its id and the pass went on to the port
C20_Witness ==
    /\ pc.mode = "ensure" /\ Tasks[pc.idx] = "port"
    /\ Len(calls) = 1 /\ calls[1].op = "list" /\ calls[1].task = "switch"
    /\ Len(switches) = 2
    /\ switches[1].tags[1].scope = "scope"
    /\ switches[2].id = 1
    /\ state.LogicalSwitchID = 1

Lookups == {"edge", "switch"}

\* C21: Lookup tasks own nothing.  The edge-cluster and logical-switch tasks
\* issue only list calls and change nothing on the remote; an EnsureAllDeleted
\* pass leaves the edge-cluster and logical-switch References as they are;
\* after an EnsureAllDeleted pass that returned without error the profile,
\* server, port and pool References are all absent.
C21_LookupsOwnNothing ==
    [][/\ \A i \in 1..Len(calls') :
            calls'[i].task \in Lookups => calls'[i].op = "list"
       /\ (pc.mode = "ensure" /\ Tasks[pc.idx] \in Lookups) =>
            /\ remote' = remote
            /\ \A i \in 1..Len(calls') : calls'[i].op = "list"
       /\ pc.mode = "delete" =>
            /\ \A t \in Lookups : state'[RefField(t)] = state[RefField(t)]
            /\ Tasks[pc.idx] \in Lookups => (calls' = <<>> /\ remote' = remote)
       /\ (last'.op = "EnsureAllDeleted" /\ last'.ret = "ok") =>
            \A t \in Owning : state'[RefField(t)] = Nil]_vars

\* a deletion pass has deleted the four owned objects and returned; the two
\* looked-up ids are still in State
C21_Witness ==
    /\ pc.mode = "idle" /\ last.op = "EnsureAllDeleted" /\ last.ret = "ok"
    /\ reported = Owning
    /\ \A t \in Owning : Ref(t) = Nil
    /\ \A t \in Lookups : Ref(t) # Nil

\* the highest host number the subnet holds
LastHost(net) == Pow2(net.hostBits) - 1

\* the addresses the claim gives for the object of task t
AddressesAsDerived(t, obj, net) ==
    IF t = "server"
    THEN /\ obj.gatewayIp = net.base + 1
         /\ obj.serverIp[1] = net.base + 2
    ELSE /\ obj.gatewayIp = net.base + 1
         /\ Len(obj.ranges) = 1
         /\ obj.ranges[1].start = net.base + 10
         /\ obj.ranges[1].end = net.base + LastHost(net) - 1

\* C22: Address derivation.  For every worker subnet the server task uses
\* gateway = network address + 1 and server address = network address + 2,
\* and the pool task gateway = network address + 1, pool start = network
\* address + 10 and pool end = broadcast address - 1, in the object it builds
\* and in every object it creates or updates; when the subnet does not hold
\* the highest of these offsets the task returns an error before any remote
\* call.
C22_AddressDerivation ==
    [][(last'.op = "Ensure" /\ last'.task \in {"server", "pool"}) =>
        LET t    == last'.task
            net  == spec.workers
            most == IF t = "server" THEN 2 ELSE 10
        IN  IF most <= LastHost(net)
            THEN /\ AddressesAsDerived(t, Desired(t, spec, state), net)
                 /\ \A i \in 1..Len(calls') :
                      /\ calls'[i].status = StatusCreated =>
                            AddressesAsDerived(t, remote'[t][calls'[i].newid], net)
                      /\ (calls'[i].op = "update"
                            /\ calls'[i].status = StatusOK) =>
                            AddressesAsDerived(t, remote'[t][calls'[i].id], net)
            ELSE /\ last'.ret = "err"
                 /\ calls' = <<>>
                 /\ state' = state
                 /\ remote' = remote]_vars

\* for 10.0.0.0/24 the pool was created with gateway 10.0.0.1 and the range
\* 10.0.0.10 - 10.0.0.254
C22_Witness ==
    /\ spec.workers = [base |-> 167772160, hostBits |-> 8]
    /\ last.op = "Ensure" /\ last.task = "pool" /\ last.ret = "ok"
    /\ Len(calls) = 1 /\ calls[1].op = "create"
    /\ remote["pool"][2].gatewayIp = 167772161
    /\ remote["pool"][2].ranges = <<[start |-> 167772170, end |-> 167772414]>>

\* C23: Reference accessor.  Each task's reference accessor reports the State
\* field the task's own Ensure and EnsureDeleted read and write: in every
\* State the task's reference is present exactly when that id is present, and
\* then it holds that id.
C23_ReferenceReportsOwnField ==
    \A i \in 1..Len(Tasks) :
        LET t == Tasks[i]
            r == reference(t, state)
        IN  /\ r # <<>> <=> Ref(t) # Nil
            /\ r # <<>> => r[1].ID = Ref(t)

\* C24: Pool under its server.  In every State reached by EnsureAll and
\* EnsureAllDeleted passes with failing remote calls and external deletions,
\* the server Reference is present whenever the pool Reference is.
C24_PoolImpliesServer ==
    state.IPPoolID # Nil => state.ServerID # Nil

\* every owned Reference names an existing object, and the ids the objects
\* hold of each other are the References of State
ConsistentWithState ==
    /\ \A t \in Owning : Ref(t) \in DOMAIN remote[t]
    /\ remote["profile"][state.ProfileID].edge = state.EdgeClusterID
    /\ remote["server"][state.ServerID].profile = state.ProfileID
    /\ remote["port"][state.PortID].switch = state.LogicalSwitchID
    /\ remote["port"][state.PortID].attachmentId = state.ServerID
    /\ remote["pool"][state.IPPoolID].server = state.ServerID

\* C25: Consistency after success.  Whenever an EnsureAll pass returns
\* success, every owned Reference points to an existing remote object, the
\* profile's edge-cluster id is the edge-cluster Reference, the server's
\* profile id the profile Reference, the port's switch id and attachment id
\* the logical-switch and server References, and the pool exists under the
\* server of the server Reference; also when the pass recreated the server or
\* the profile with a new id.
C25_SuccessLeavesConsistentObjects ==
    (pc.mode = "idle" /\ last.op = "EnsureAll" /\ last.ret = "ok")
        => ConsistentWithState

\* a pass that recreated the server as 2 has returned success: the port
\* created for server 1 is attached to 2 and the pool is a new one under 2
C25_Witness ==
    /\ pc.mode = "idle" /\ last.op = "EnsureAll" /\ last.ret = "ok"
    /\ state.ServerID = 2 /\ state.PortID = 1 /\ state.IPPoolID = 2
    /\ remote["port"][1].attachmentId = 2
    /\ remote["pool"][2].server = 2

\* the step of a pass that issues a create: the task's Reference is absent
\* when it does, either since the task was entered or since the read of the
\* stored id, the call before, was answered not-found; what it creates becomes
\* the Reference or, when the create fails, nothing
CreatesWithReferenceAbsent ==
    \A i \in 1..Len(calls') :
        (pc.mode = "ensure" /\ calls'[i].op = "create")
        => LET t == calls'[i].task IN
           /\ t = Tasks[pc.idx] /\ t \in Owning
           /\ i = Len(calls')
           /\ state[RefField(t)] = Nil
           /\ IF pc.re
              THEN /\ i = 2 /\ calls = <<calls'[1]>>
                   /\ calls[1].op = "read"
                   /\ calls[1].status = StatusNotFound
                   /\ calls[1].id \notin DOMAIN remote[t]
              ELSE i = 1
           /\ IF calls'[i].status = StatusCreated
              THEN /\ state'[RefField(t)] = calls'[i].newid
                   /\ DOMAIN remote'[t] = {calls'[i].newid}
              ELSE /\ state'[RefField(t)] = Nil
                   /\ remote' = remote

\* the objects of a kind that exist are at most the one State refers to
OneObjectPerKind == \A t \in Owning : DOMAIN remote[t] \subseteq {Ref(t)}

\* C26: No duplicate creation.  Across any sequence of EnsureAll passes, an
\* owning task issues a create call only when its Reference is absent at that
\* moment (initially, or after a read of the stored id answered not-found),
\* never while State holds a Reference to an object that still exists; at
\* most one live remote object per resource kind is referenced or created.
C26_NoDuplicateCreation ==
    /\ [][CreatesWithReferenceAbsent]_vars
    /\ []OneObjectPerKind

\* a pass has recreated the pool: the read of pool 1 was answered not-found,
\* pool 2 was created and is the only pool there is
C26_Witness ==
    /\ pc.mode = "idle" /\ last.op = "EnsureAll" /\ last.task = "pool"
    /\ Len(calls) = 2
    /\ calls[1].op = "read" /\ calls[1].id = 1
    /\ calls[1].status = StatusNotFound
    /\ calls[2].op = "create" /\ calls[2].status = StatusCreated
    /\ state.IPPoolID = 2
    /\ DOMAIN remote["pool"] = {2}

====
